---- MODULE Spec2Model ----
(***************************************************************************)
(* Model of the stroke-tracking canvas of mathcanvas (src/canvas.py):      *)
(* class Stroke and class WriteableCanvas, with the Kivy services the      *)
(* handlers call (the widget canvas as the set of attached instruction     *)
(* groups, the Clock as the set of scheduled events, time.time() as the    *)
(* integer clock now).  Every handler runs to completion on the single UI  *)
(* event loop, so every handler is one action.                             *)
(*                                                                         *)
(* Time is counted in units of 0.5 s, the greatest common unit of the      *)
(* three timing constants of src/config.py.  Colours are named by their    *)
(* key in config.COLORS, backgrounds by their key in CANVAS_BACKGROUNDS.   *)
(***************************************************************************)
EXTENDS Integers, Sequences, FiniteSets, TLC

VARIABLES
    strokes,                \* self.strokes: committed strokes, oldest first
    undo_stack,             \* self._undo_stack: undone strokes, top last
    current_stroke_points,  \* self._current_stroke_points
    current_instruction,    \* self._current_instruction (None, or a handle)
    last_draw_time,         \* self.last_draw_time
    unicorn_check_event,    \* self._unicorn_check_event (None, or a ClockEvent)
    unicorn_callback,       \* self.unicorn_callback is registered
    current_color,          \* self.current_color
    line_width,             \* self.line_width
    is_eraser,              \* self.is_eraser
    background_key,         \* self.background_key
    background_color,       \* self.background_color
    canvas,                 \* instruction groups attached to self.canvas
    touches,                \* per pointer: grabbed by the canvas, touch.ud['line']
    clock,                  \* Clock: the scheduled, not yet fired or cancelled events
    now,                    \* time.time()
    next_id,                \* the next fresh InstructionGroup handle
    rewards,                \* the calls made to unicorn_callback, oldest first
    last,                   \* the last handler run: its name, result, branch, pre-state
    commit_run,             \* the strokes committed in a row since the log was empty
    budget                  \* the clock ticks and tool changes made so far

vars == <<strokes, undo_stack, current_stroke_points, current_instruction,
          last_draw_time, unicorn_check_event, unicorn_callback, current_color,
          line_width, is_eraser, background_key, background_color, canvas,
          touches, clock, now, next_id, rewards, last, commit_run, budget>>

(***************************************************************************)
(* Bounds of the model.                                                    *)
(***************************************************************************)
\* The capacity of the stroke log in the model; the source sets 50.
UndoCap == 2
\* Gestures begun in one run (each creates an instruction group).
MaxInstr == 3
\* Instruction groups that imports may create beyond those MaxInstr.
MaxImportHandles == 1
\* Points sampled in one gesture.
MaxPoints == 2
\* Times the clock advances in one run.
MaxTicks == 1
\* Changes of colour, width, eraser mode and background in one run.
MaxToolChanges == 1
\* Times the clock advances in one run of TimerSpec.
MaxTimerTicks == 2
\* Changes of colour, width and eraser mode in one run of GestureSpec.
MaxGestureToolChanges == 2

(***************************************************************************)
(* Program constants (src/config.py).                                      *)
(***************************************************************************)
MAX_UNDO_STACK == UndoCap
UNICORN_CHECK_DELAY == 3
UNICORN_IDLE_THRESHOLD == 2
STROKE_RECENT_THRESHOLD == 6
CONTROL_BAR_TOUCH_THRESHOLD_PCT == 88
DEFAULT_LINE_WIDTH == 4
MAX_LINE_WIDTH == 15
ERASER_WIDTH_MULTIPLIER == 4
DEFAULT_BACKGROUND == "cream"
CANVAS_BACKGROUNDS ==
    [k \in {"cream", "slate", "mint"} |->
        CASE k = "cream" -> <<98, 96, 91, 100>>
          [] k = "slate" -> <<18, 20, 25, 100>>
          [] k = "mint"  -> <<90, 98, 93, 100>>]
\* RGBA in hundredths; the model draws with two of the eight palette colours.
COLORS ==
    [k \in {"charcoal", "crimson"} |->
        CASE k = "charcoal" -> <<15, 15, 18, 100>>
          [] k = "crimson"  -> <<86, 20, 27, 100>>]

None == 0
\* None where a ClockEvent is expected
NoEvent == [id |-> 0, due |-> 0]
Touches == {1, 2}
\* A pointer the canvas has not grabbed.  For a grabbed pointer, line is
\* touch.ud['line'] and erasing tells which branch of on_touch_down drew it.
NoTouch == [grab |-> FALSE, erasing |-> FALSE, line |-> [instruction |-> None]]

(***************************************************************************)
(* Geometry: the widget occupies [0, 10] x [0, 10].  Of the points the     *)
(* pointers visit, (5,2) and (3,4) lie in the drawable region, (5,9) in    *)
(* the strip reserved for the control bar and (5,12) outside the widget.   *)
(***************************************************************************)
CanvasPos == <<0, 0>>
CanvasSize == <<10, 10>>
\* Where a pointer goes down, and where it moves to
DownPoints == {<<5, 2>>, <<5, 9>>, <<5, 12>>}
MovePoints == {<<3, 4>>, <<5, 12>>}

\* Widget.collide_point as used by on_touch_down / on_touch_move
collide_point(p) ==
    /\ CanvasPos[1] <= p[1] /\ p[1] <= CanvasPos[1] + CanvasSize[1]
    /\ CanvasPos[2] <= p[2] /\ p[2] <= CanvasPos[2] + CanvasSize[2]

\* touch.y > self.height * CONTROL_BAR_TOUCH_THRESHOLD
InControlBar(p) == p[2] * 100 > CanvasSize[2] * CONTROL_BAR_TOUCH_THRESHOLD_PCT

(***************************************************************************)
(* class Stroke                                                            *)
(***************************************************************************)
\* Stroke.__init__: the creation time is read from the clock
Stroke(points, color, width, instruction) ==
    [points |-> points, color |-> color, width |-> width,
     time |-> now, instruction |-> instruction]

\* A variant of to_dict that serialises the default width
to_dict_DefaultWidth(s) ==
    [points |-> s.points, color |-> s.color, width |-> DEFAULT_LINE_WIDTH,
     time |-> s.time]

\* Stroke.to_dict
to_dict(s) ==
    [points |-> s.points, color |-> s.color, width |-> s.width, time |-> s.time]

Front(s) == SubSeq(s, 1, Len(s) - 1)
Last(s) == s[Len(s)]
Tail0(s) == SubSeq(s, 2, Len(s))
Instructions(seq) == {seq[i].instruction : i \in 1..Len(seq)}

NoPre == [strokes |-> <<>>, undo_stack |-> <<>>]

\* The state after WriteableCanvas.__init__
Init ==
    /\ strokes = <<>>
    /\ undo_stack = <<>>
    /\ current_stroke_points = <<>>
    /\ current_instruction = None
    /\ last_draw_time = 0
    /\ unicorn_check_event = NoEvent
    /\ unicorn_callback = FALSE
    /\ current_color = COLORS["charcoal"]
    /\ line_width = DEFAULT_LINE_WIDTH
    /\ is_eraser = FALSE
    /\ background_key = DEFAULT_BACKGROUND
    /\ background_color = CANVAS_BACKGROUNDS[DEFAULT_BACKGROUND]
    /\ canvas = {}
    /\ touches = [t \in Touches |-> NoTouch]
    /\ clock = {}
    /\ now = 0
    /\ next_id = 1
    /\ rewards = <<>>
    /\ last = [op |-> "other", ret |-> "None", branch |-> "", chained |-> FALSE,
               cancelled |-> FALSE, pre |-> NoPre]
    /\ commit_run = [ok |-> TRUE, seq |-> <<>>]
    /\ budget = [ticks |-> 0, tools |-> 0]

\* What the observer records of the handler that ran last, when it acted on
\* the stroke log or ended a gesture: its name, its result, the branch it
\* took, and the log it started from (undo, a gesture's end).  For a redo that
\* follows a successful undo at once (chained), pre is the log that undo
\* started from.  cancelled tells that the handler cancelled a pending timer.
\* Any other handler leaves the record Other.
Pre == [strokes |-> strokes, undo_stack |-> undo_stack]
Other == [op |-> "other", ret |-> "None", branch |-> "", chained |-> FALSE,
          cancelled |-> FALSE, pre |-> NoPre]
Recorded == {"undo", "redo", "clear_canvas", "import_strokes", "on_touch_up",
             "_check_for_number"}
Ran(op, ret, branch) ==
    LET chained == op = "redo" /\ last.op = "undo" /\ last.ret = "True"
        cancelled == /\ unicorn_check_event \in clock
                     /\ \/ op \in {"clear_canvas", "import_strokes"}
                        \/ op = "on_touch_up" /\ branch = "commit"
    IN  last' = IF op \in Recorded /\ branch # "forwarded"
                THEN [op |-> op, ret |-> ret, branch |-> branch,
                      chained |-> chained, cancelled |-> cancelled,
                      pre |-> IF op \in {"undo", "on_touch_up"} THEN Pre
                              ELSE IF chained THEN last.pre ELSE NoPre]
                ELSE Other

log == <<strokes, undo_stack>>
session == <<current_stroke_points, current_instruction>>
tool == <<current_color, line_width, is_eraser>>
background == <<background_key, background_color>>
timer == <<unicorn_check_event, clock>>

(***************************************************************************)
(* Pointer handlers                                                        *)
(***************************************************************************)
\* WriteableCanvas.on_touch_down for a new pointer t at point p.  The widget
\* has no children, so super().on_touch_down returns False.
on_touch_down(t, p) ==
    /\ ~touches[t].grab
    /\ IF ~collide_point(p) \/ InControlBar(p)
       THEN /\ Ran("on_touch_down", "False", "forwarded")
            /\ UNCHANGED <<log, session, last_draw_time, timer, unicorn_callback,
                           tool, background, canvas, touches, now, next_id,
                           rewards>>
       ELSE /\ next_id <= MaxInstr
            /\ touches' = [touches EXCEPT ![t] =
                   [grab |-> TRUE,
                    erasing |-> is_eraser,
                    line |-> IF is_eraser
                             THEN [instruction |-> next_id,
                                   color |-> background_color,
                                   width |-> line_width * ERASER_WIDTH_MULTIPLIER,
                                   points |-> <<p>>]
                             ELSE [instruction |-> next_id,
                                   color |-> current_color,
                                   width |-> line_width,
                                   points |-> <<p>>]]]
            /\ current_stroke_points' = <<p>>
            /\ current_instruction' = next_id
            /\ canvas' = canvas \cup {next_id}
            /\ next_id' = next_id + 1
            /\ Ran("on_touch_down", "True", "grabbed")
            /\ UNCHANGED <<log, last_draw_time, timer, unicorn_callback, tool,
                           background, now, rewards>>

\* WriteableCanvas.on_touch_move.  Kivy calls it with grab_current = self
\* exactly for the pointers that grabbed the canvas.
on_touch_move(t, p) ==
    IF ~touches[t].grab
    THEN /\ Ran("on_touch_move", "False", "forwarded")
         /\ UNCHANGED <<log, session, last_draw_time, timer, unicorn_callback,
                        tool, background, canvas, touches, now, next_id,
                        rewards>>
    ELSE IF ~collide_point(p)
    THEN /\ Ran("on_touch_move", "True", "outside")
         /\ UNCHANGED <<log, session, last_draw_time, timer, unicorn_callback,
                        tool, background, canvas, touches, now, next_id,
                        rewards>>
    ELSE /\ Len(current_stroke_points) < MaxPoints
         /\ IF touches[t].line.instruction # None
            THEN /\ touches' = [touches EXCEPT ![t].line.points = Append(@, p)]
                 /\ current_stroke_points' = Append(current_stroke_points, p)
                 /\ last_draw_time' = now
            ELSE UNCHANGED <<touches, current_stroke_points, last_draw_time>>
         /\ Ran("on_touch_move", "True", "sampled")
         /\ UNCHANGED <<log, current_instruction, timer, unicorn_callback, tool,
                        background, canvas, now, next_id, rewards>>

\* Variants of Commit: one that never evicts, one that keeps the redo history,
\* one that evicts the stroke committed just before the new one
Commit_NoEvict(committed, undone, stroke) ==
    <<Append(committed, stroke), <<>> >>
Commit_KeepUndone(committed, undone, stroke) ==
    LET appended == Append(committed, stroke)
    IN  <<IF Len(appended) > MAX_UNDO_STACK THEN Tail0(appended) ELSE appended,
          undone>>
Commit_EvictNewest(committed, undone, stroke) ==
    LET appended == Append(committed, stroke)
    IN  <<IF Len(appended) > MAX_UNDO_STACK
          THEN Append(Front(committed), stroke) ELSE appended,
          <<>> >>

\* The log part of the commit branch of on_touch_up, as <<strokes, undone>>:
\* append, clear the redo history, evict the oldest stroke over the capacity.
Commit(committed, undone, stroke) ==
    LET appended == Append(committed, stroke)
    IN  <<IF Len(appended) > MAX_UNDO_STACK THEN Tail0(appended) ELSE appended,
          <<>> >>

\* A variant of ArmTimer that schedules without cancelling
ArmTimer_NoCancel(id) ==
    LET event == [id |-> id, due |-> now + UNICORN_CHECK_DELAY]
    IN  IF unicorn_callback
        THEN /\ unicorn_check_event' = event
             /\ clock' = clock \cup {event}
        ELSE UNCHANGED <<unicorn_check_event, clock>>

\* The timer part of the commit branch: cancel the stored event, schedule anew
ArmTimer(id) ==
    LET kept == IF unicorn_check_event # NoEvent
                THEN clock \ {unicorn_check_event} ELSE clock
        event == [id |-> id, due |-> now + UNICORN_CHECK_DELAY]
    IN  IF unicorn_callback
        THEN /\ unicorn_check_event' = event
             /\ clock' = kept \cup {event}
        ELSE /\ unicorn_check_event' = unicorn_check_event
             /\ clock' = kept

\* A variant of EndSession that keeps the live instruction
EndSession_KeepInstruction(points, instruction) == << <<>>, instruction >>

\* The end of on_touch_up, as <<_current_stroke_points, _current_instruction>>
EndSession(points, instruction) == << <<>>, None >>

\* WriteableCanvas.on_touch_up
on_touch_up(t) ==
    IF ~touches[t].grab
    THEN /\ Ran("on_touch_up", "False", "forwarded")
         /\ UNCHANGED <<log, session, last_draw_time, timer, unicorn_callback,
                        tool, background, canvas, touches, now, next_id,
                        rewards>>
    ELSE /\ touches' = [touches EXCEPT ![t] = NoTouch]
         /\ IF current_stroke_points # <<>> /\ current_instruction # None
               /\ ~is_eraser
            THEN /\ LET stroke == Stroke(current_stroke_points, current_color,
                                         line_width, current_instruction)
                    IN  /\ strokes' = Commit(strokes, undo_stack, stroke)[1]
                        /\ undo_stack' = Commit(strokes, undo_stack, stroke)[2]
                 /\ ArmTimer(current_instruction)
                 /\ Ran("on_touch_up", "True", "commit")
            ELSE /\ UNCHANGED <<log, timer>>
                 /\ Ran("on_touch_up", "True", "discard")
         /\ current_stroke_points' =
                EndSession(current_stroke_points, current_instruction)[1]
         /\ current_instruction' =
                EndSession(current_stroke_points, current_instruction)[2]
         /\ UNCHANGED <<last_draw_time, unicorn_callback, tool, background, canvas,
                        now, next_id, rewards>>

(***************************************************************************)
(* Idle check                                                              *)
(***************************************************************************)
\* Variants of Recent: one that compares with the delay of the check, one
\* that does not filter
Recent_WrongThreshold ==
    SelectSeq(strokes, LAMBDA s : now - s.time < UNICORN_CHECK_DELAY)
Recent_Unfiltered == strokes

\* The strokes _check_for_number hands to the callback
Recent == SelectSeq(strokes, LAMBDA s : now - s.time < STROKE_RECENT_THRESHOLD)

\* A variant of IsIdle that skips the test
IsIdle_Always == TRUE

\* time.time() - self.last_draw_time >= UNICORN_IDLE_THRESHOLD
IsIdle == now - last_draw_time >= UNICORN_IDLE_THRESHOLD

\* WriteableCanvas._check_for_number, called by the Clock for a scheduled
\* event e once its delay has passed
check_for_number(e) ==
    /\ e \in clock
    /\ now >= e.due
    /\ clock' = clock \ {e}
    /\ unicorn_check_event' = NoEvent
    /\ IF IsIdle /\ unicorn_callback
       THEN IF Recent # <<>>
            THEN /\ rewards' = Append(rewards, [at |-> now, event |-> e.id,
                                                strokes |-> Recent])
                 /\ Ran("_check_for_number", "None", "callback")
            ELSE /\ UNCHANGED rewards
                 /\ Ran("_check_for_number", "None", "no recent stroke")
       ELSE /\ UNCHANGED rewards
            /\ Ran("_check_for_number", "None", "not idle")
    /\ UNCHANGED <<log, session, last_draw_time, unicorn_callback, tool,
                   background, canvas, touches, now, next_id>>

(***************************************************************************)
(* Undo, redo, clear                                                       *)
(***************************************************************************)
\* Variants of UndoLog and RedoLog that move the oldest entry, and one of
\* RedoLog that restores the stroke at the front of the log
UndoLog_Oldest(committed, undone) ==
    <<Tail0(committed), Append(undone, committed[1])>>
RedoLog_Oldest(committed, undone) ==
    <<Append(committed, undone[1]), Tail0(undone)>>
RedoLog_Front(committed, undone) ==
    <<(<<Last(undone)>>) \o committed, Front(undone)>>

\* A variant of RedoLog that restores the stroke in the colour of the pen
RedoLog_CurrentColor(committed, undone) ==
    <<Append(committed, [Last(undone) EXCEPT !.color = current_color]),
      Front(undone)>>

\* The log part of undo, as <<strokes, undone>>: pop the newest stroke and
\* push it on the undo stack
UndoLog(committed, undone) ==
    <<Front(committed), Append(undone, Last(committed))>>

\* The log part of redo, as <<strokes, undone>>
RedoLog(committed, undone) ==
    <<Append(committed, Last(undone)), Front(undone)>>

\* WriteableCanvas.undo.  canvas.remove detaches the instruction group; the
\* model takes the display as the set of attached groups, so detaching a
\* group that is not attached leaves the display as it is.
undo ==
    IF strokes = <<>>
    THEN /\ Ran("undo", "False", "empty")
         /\ UNCHANGED <<log, session, last_draw_time, timer, unicorn_callback,
                        tool, background, canvas, touches, now, next_id,
                        rewards>>
    ELSE LET stroke == Last(strokes)
         IN  /\ strokes' = UndoLog(strokes, undo_stack)[1]
             /\ undo_stack' = UndoLog(strokes, undo_stack)[2]
             /\ canvas' = canvas \ {stroke.instruction}
             /\ Ran("undo", "True", "moved")
             /\ UNCHANGED <<session, last_draw_time, timer, unicorn_callback,
                            tool, background, touches, now, next_id, rewards>>

\* WriteableCanvas.redo
redo ==
    IF undo_stack = <<>>
    THEN /\ Ran("redo", "False", "empty")
         /\ UNCHANGED <<log, session, last_draw_time, timer, unicorn_callback,
                        tool, background, canvas, touches, now, next_id,
                        rewards>>
    ELSE LET stroke == Last(undo_stack)
         IN  /\ strokes' = RedoLog(strokes, undo_stack)[1]
             /\ undo_stack' = RedoLog(strokes, undo_stack)[2]
             /\ canvas' = canvas \cup {stroke.instruction}
             /\ Ran("redo", "True", "moved")
             /\ UNCHANGED <<session, last_draw_time, timer, unicorn_callback,
                            tool, background, touches, now, next_id, rewards>>

\* A variant of ClearedClock that forgets the stored event without cancelling
ClearedClock_NoCancel == clock

\* The effect of clear_canvas on the timer: cancel the stored event, forget it
ClearedClock == IF unicorn_check_event # NoEvent
                THEN clock \ {unicorn_check_event} ELSE clock

\* A variant of ClearedLog that keeps the undone strokes
ClearedLog_KeepUndone(committed, undone) == << <<>>, undone >>

\* The log part of clear_canvas, as <<strokes, undone>>
ClearedLog(committed, undone) == << <<>>, <<>> >>

\* WriteableCanvas.clear_canvas
clear_canvas ==
    /\ clock' = ClearedClock
    /\ unicorn_check_event' = NoEvent
    /\ canvas' = {}
    /\ strokes' = ClearedLog(strokes, undo_stack)[1]
    /\ undo_stack' = ClearedLog(strokes, undo_stack)[2]
    /\ Ran("clear_canvas", "None",
           IF undo_stack # <<>> THEN "with undone" ELSE "")
    /\ UNCHANGED <<session, last_draw_time, unicorn_callback, tool, background,
                   touches, now, next_id, rewards>>

\* WriteableCanvas.has_content
has_content == Len(strokes) > 0

(***************************************************************************)
(* Tool and background state                                               *)
(***************************************************************************)
\* WriteableCanvas.set_background: the new (key, colour), unchanged for a key
\* that is no background
BackgroundAfter(color_key, bk, bc) ==
    IF color_key \notin DOMAIN CANVAS_BACKGROUNDS
    THEN <<bk, bc>>
    ELSE <<color_key, CANVAS_BACKGROUNDS[color_key]>>

\* The keys tried: a background and a key that is none
BackgroundKeys == {"slate", "neon"}

set_background(color_key) ==
    /\ background_key' = BackgroundAfter(color_key, background_key, background_color)[1]
    /\ background_color' = BackgroundAfter(color_key, background_key, background_color)[2]
    /\ Ran("set_background", "None", "")
    /\ UNCHANGED <<log, session, last_draw_time, timer, unicorn_callback, tool,
                   canvas, touches, now, next_id, rewards>>

\* MathCanvasApp._set_color (the palette buttons)
set_color(k) ==
    /\ current_color' = COLORS[k]
    /\ is_eraser' = FALSE
    /\ Ran("_set_color", "None", "")
    /\ UNCHANGED <<log, session, last_draw_time, timer, unicorn_callback,
                   line_width, background, canvas, touches, now, next_id,
                   rewards>>

\* The eraser toggle button: is_eraser = (state == 'down')
set_eraser(b) ==
    /\ is_eraser' = b
    /\ Ran("set_eraser", "None", "")
    /\ UNCHANGED <<log, session, last_draw_time, timer, unicorn_callback,
                   current_color, line_width, background, canvas, touches,
                   now, next_id, rewards>>

LineWidths == {DEFAULT_LINE_WIDTH, MAX_LINE_WIDTH}

\* The width slider: line_width = v
set_line_width(v) ==
    /\ line_width' = v
    /\ Ran("set_line_width", "None", "")
    /\ UNCHANGED <<log, session, last_draw_time, timer, unicorn_callback,
                   current_color, is_eraser, background, canvas, touches,
                   now, next_id, rewards>>

\* MathCanvasApp.build: canvas_widget.unicorn_callback = self.spawn_unicorns
set_unicorn_callback ==
    /\ ~unicorn_callback
    /\ unicorn_callback' = TRUE
    /\ Ran("set_unicorn_callback", "None", "")
    /\ UNCHANGED <<log, session, last_draw_time, timer, tool, background, canvas,
                   touches, now, next_id, rewards>>

\* The time that passes between two handlers when the clock advances: the
\* delay of the idle check
TickSizes == {UNICORN_CHECK_DELAY}

Tick(d) ==
    /\ now' = now + d
    /\ Ran("tick", "None", "")
    /\ UNCHANGED <<log, session, last_draw_time, timer, unicorn_callback, tool,
                   background, canvas, touches, next_id, rewards>>

(***************************************************************************)
(* Export and import                                                       *)
(***************************************************************************)
\* A variant of export_strokes() that serialises the undone strokes as well
export_strokes_value_WithUndone ==
    [strokes |-> [i \in 1..(Len(strokes) + Len(undo_stack)) |->
                     to_dict((strokes \o undo_stack)[i])],
     background |-> background_key,
     timestamp |-> now]

\* The value of WriteableCanvas.export_strokes()
export_strokes_value ==
    [strokes |-> [i \in 1..Len(strokes) |-> to_dict(strokes[i])],
     background |-> background_key,
     timestamp |-> now]

\* WriteableCanvas.export_strokes
export_strokes ==
    /\ Ran("export_strokes", "dict", "")
    /\ UNCHANGED <<log, session, last_draw_time, timer, unicorn_callback, tool,
                   background, canvas, touches, now, next_id, rewards>>

\* stroke_data['color'], ['points'], ['width'] are all present
HasStrokeKeys(stroke_data) == {"color", "points", "width"} \subseteq DOMAIN stroke_data

\* data.get('strokes', [])
StrokeEntries(data) == IF "strokes" \in DOMAIN data THEN data.strokes ELSE <<>>

\* The loop of import_strokes over the entries from index i on: the strokes
\* appended, each with a fresh instruction group, up to the first entry whose
\* lookup raises KeyError (which ends the import).
RECURSIVE ImportLoop(_, _, _)
ImportLoop(entries, i, id) ==
    IF i > Len(entries) \/ ~HasStrokeKeys(entries[i])
    THEN <<>>
    ELSE <<Stroke(entries[i].points, entries[i].color, entries[i].width, id)>>
         \o ImportLoop(entries, i + 1, id + 1)

\* A variant of ImportBackground that falls back to the default background
ImportBackground_Default(data, bk, bc) ==
    IF "background" \in DOMAIN data
    THEN BackgroundAfter(data.background, bk, bc)
    ELSE <<DEFAULT_BACKGROUND, CANVAS_BACKGROUNDS[DEFAULT_BACKGROUND]>>

\* import_strokes: if 'background' in data: self.set_background(...)
ImportBackground(data, bk, bc) ==
    IF "background" \in DOMAIN data
    THEN BackgroundAfter(data.background, bk, bc)
    ELSE <<bk, bc>>

\* WriteableCanvas.import_strokes
import_strokes(data) ==
    LET entries == StrokeEntries(data)
        imported == ImportLoop(entries, 1, next_id)
        bg == ImportBackground(data, background_key, background_color)
    IN  /\ next_id + Len(imported) - 1 <= MaxInstr + MaxImportHandles
        /\ clock' = ClearedClock
        /\ unicorn_check_event' = NoEvent
        /\ background_key' = bg[1]
        /\ background_color' = bg[2]
        /\ strokes' = imported
        /\ undo_stack' = <<>>
        /\ canvas' = Instructions(imported)
        /\ next_id' = next_id + Len(imported)
        /\ Ran("import_strokes",
               IF Len(imported) < Len(entries) THEN "KeyError" ELSE "None",
               IF data = export_strokes_value THEN "own export"
               ELSE IF "background" \notin DOMAIN data THEN "no background"
               ELSE "")
        /\ UNCHANGED <<session, last_draw_time, unicorn_callback, tool, touches,
                       now, rewards>>

\* Snapshots handed to import_strokes besides the canvas's own export
EntryA == [points |-> << <<5, 2>> >>, color |-> COLORS["crimson"],
           width |-> DEFAULT_LINE_WIDTH, time |-> 0]
EntryB == [points |-> << <<3, 4>>, <<5, 2>> >>, color |-> COLORS["charcoal"],
           width |-> MAX_LINE_WIDTH, time |-> 1]
EntryNoColor == [points |-> << <<3, 4>> >>, width |-> DEFAULT_LINE_WIDTH, time |-> 0]
EntryNoPoints == [points |-> <<>>, color |-> COLORS["crimson"],
                  width |-> DEFAULT_LINE_WIDTH, time |-> 0]
TestSnapshots ==
    { [strokes |-> [i \in 1..(MAX_UNDO_STACK + 1) |->
                       IF i % 2 = 1 THEN EntryA ELSE EntryB],
       background |-> "slate", timestamp |-> 0],
      [strokes |-> <<EntryNoPoints, EntryNoColor, EntryB>>,
       background |-> "neon", timestamp |-> 0],
      [background |-> "mint", timestamp |-> 0] }

\* export_strokes() with the 'background' key dropped
WithoutBackground(d) == [k \in DOMAIN d \ {"background"} |-> d[k]]

SnapshotInputs ==
    {export_strokes_value, WithoutBackground(export_strokes_value)} \cup TestSnapshots

(***************************************************************************)
(* The observer's record of a run of commits                               *)
(***************************************************************************)
\* commit_run.seq: the strokes committed, in order, since the log was last
\* empty, as long as nothing but commits changed the log (commit_run.ok)
CommitRunAfter ==
    IF last'.op = "on_touch_up" /\ last'.branch = "commit"
    THEN LET made == Stroke(current_stroke_points, current_color, line_width,
                            current_instruction)
         IN  IF strokes = <<>> THEN [ok |-> TRUE, seq |-> <<made>>]
             ELSE [commit_run EXCEPT !.seq = IF commit_run.ok THEN Append(@, made)
                                             ELSE @]
    ELSE IF strokes' = <<>> THEN [ok |-> TRUE, seq |-> <<>>]
    ELSE IF strokes' # strokes THEN [ok |-> FALSE, seq |-> <<>>]
    ELSE commit_run

Observed == commit_run' = CommitRunAfter /\ UNCHANGED budget

\* A use of a tool or background control; one that changes the tool or the
\* background is counted against MaxToolChanges
ToolChange ==
    /\ IF <<tool, background>>' # <<tool, background>>
       THEN /\ budget.tools < MaxToolChanges
            /\ budget' = [budget EXCEPT !.tools = @ + 1]
       ELSE UNCHANGED budget
    /\ commit_run' = CommitRunAfter

\* An advance of the clock, counted against MaxTicks
ClockAdvance ==
    /\ budget.ticks < MaxTicks
    /\ budget' = [budget EXCEPT !.ticks = @ + 1]
    /\ commit_run' = CommitRunAfter

\* Pointers are named in the order they go down: 2 is a pointer that goes
\* down while pointer 1 is held by the canvas
FirstPointerDown ==
    (\E p \in DownPoints : on_touch_down(1, p)) /\ Observed
SecondPointerDown ==
    /\ touches[1].grab
    /\ (\E p \in DownPoints : on_touch_down(2, p)) /\ Observed

\* The canvas driven by one pointer at a time
Next ==
    \/ FirstPointerDown
    \/ (\E p \in MovePoints : on_touch_move(1, p)) /\ Observed
    \/ on_touch_up(1) /\ Observed
    \/ (\E e \in clock : check_for_number(e)) /\ Observed
    \/ undo /\ Observed
    \/ redo /\ Observed
    \/ clear_canvas /\ Observed
    \/ (\E k \in BackgroundKeys : set_background(k)) /\ ToolChange
    \/ (\E k \in DOMAIN COLORS : set_color(k)) /\ ToolChange
    \/ (\E b \in BOOLEAN : set_eraser(b)) /\ ToolChange
    \/ (\E v \in LineWidths : set_line_width(v)) /\ ToolChange
    \/ set_unicorn_callback /\ Observed
    \/ export_strokes /\ Observed
    \/ (\E d \in SnapshotInputs : import_strokes(d)) /\ Observed
    \/ (\E d \in TickSizes : Tick(d)) /\ ClockAdvance

Spec == Init /\ [][Next]_vars

(***************************************************************************)
(* The canvas and its idle timer: gestures, undo, redo and clear with the  *)
(* clock advancing by one unit or by the delay of the check.  The Clock    *)
(* calls a scheduled event at some time not before it is due.              *)
(***************************************************************************)
TimerTickSizes == {1, UNICORN_CHECK_DELAY}

\* An advance of the clock, counted against MaxTimerTicks
TimerClockAdvance ==
    /\ budget.ticks < MaxTimerTicks
    /\ budget' = [budget EXCEPT !.ticks = @ + 1]
    /\ commit_run' = CommitRunAfter

TimerNext ==
    \/ FirstPointerDown
    \/ (\E p \in MovePoints : on_touch_move(1, p)) /\ Observed
    \/ on_touch_up(1) /\ Observed
    \/ (\E e \in clock : check_for_number(e)) /\ Observed
    \/ undo /\ Observed
    \/ redo /\ Observed
    \/ clear_canvas /\ Observed
    \/ set_unicorn_callback /\ Observed
    \/ (\E d \in TimerTickSizes : Tick(d)) /\ TimerClockAdvance

TimerSpec == Init /\ [][TimerNext]_vars

(***************************************************************************)
(* The canvas under two pointers and the tool controls: a second pointer   *)
(* may go down while the first is held, and the tool may change during a   *)
(* gesture.  The clock stands still.                                       *)
(***************************************************************************)
\* A use of a tool control, counted against MaxGestureToolChanges if it
\* changes the tool
GestureToolChange ==
    /\ IF tool' # tool
       THEN /\ budget.tools < MaxGestureToolChanges
            /\ budget' = [budget EXCEPT !.tools = @ + 1]
       ELSE UNCHANGED budget
    /\ commit_run' = CommitRunAfter

GestureNext ==
    \/ FirstPointerDown
    \/ SecondPointerDown
    \/ (\E t \in Touches, p \in MovePoints : on_touch_move(t, p)) /\ Observed
    \/ (\E t \in Touches : on_touch_up(t)) /\ Observed
    \/ undo /\ Observed
    \/ redo /\ Observed
    \/ (\E k \in DOMAIN COLORS : set_color(k)) /\ GestureToolChange
    \/ (\E b \in BOOLEAN : set_eraser(b)) /\ GestureToolChange
    \/ (\E v \in LineWidths : set_line_width(v)) /\ GestureToolChange
    \/ set_unicorn_callback /\ Observed

GestureSpec == Init /\ [][GestureNext]_vars

(***************************************************************************)
(* The pointer handlers alone: two pointers that go down, move over the    *)
(* drawable region, the control-bar strip and the outside of the widget,   *)
(* and go up, with the eraser toggled in between.                          *)
(***************************************************************************)
\* Where a pointer moves to: MovePoints and a point of the control-bar strip
PointerMovePoints == MovePoints \cup {<<5, 9>>}

PointerNext ==
    \/ FirstPointerDown
    \/ SecondPointerDown
    \/ (\E t \in Touches, p \in PointerMovePoints : on_touch_move(t, p))
          /\ Observed
    \/ (\E t \in Touches : on_touch_up(t)) /\ Observed
    \/ (\E b \in BOOLEAN : set_eraser(b)) /\ GestureToolChange

PointerSpec == Init /\ [][PointerNext]_vars

(***************************************************************************)
(* Properties of the stroke log                                            *)
(***************************************************************************)
CommitStep == last'.op = "on_touch_up" /\ last'.branch = "commit"
Committed == last.op = "on_touch_up" /\ last.branch = "commit"
LogAndTimerUnchanged == UNCHANGED <<strokes, undo_stack, canvas, unicorn_check_event, clock>>

\* C1: the committed log never holds more than MAX_UNDO_STACK strokes, in
\* any reachable state, whatever operation (import included) led to it.
C1_CommittedBounded == Len(strokes) <= MAX_UNDO_STACK

\* C2: after more than MAX_UNDO_STACK consecutive commits made from an empty
\* log, the log holds exactly the MAX_UNDO_STACK most recently committed
\* strokes, in commit order.
C2_KeepsMostRecent ==
    (commit_run.ok /\ Len(commit_run.seq) > MAX_UNDO_STACK)
        => strokes = SubSeq(commit_run.seq,
                            Len(commit_run.seq) - MAX_UNDO_STACK + 1,
                            Len(commit_run.seq))
C2_Witness ==
    /\ Committed
    /\ commit_run.ok
    /\ Len(commit_run.seq) > MAX_UNDO_STACK
    /\ Len(strokes) = MAX_UNDO_STACK

\* C3: a commit leaves the undo stack empty and puts the new stroke after
\* the strokes that stay committed; a redo right after a commit returns
\* False and changes nothing.
C3_CommitClearsRedo ==
    [][/\ CommitStep =>
            /\ undo_stack' = <<>>
            /\ strokes' # <<>>
            /\ Last(strokes') = Stroke(current_stroke_points, current_color,
                                       line_width, current_instruction)
            /\ Front(strokes') \in {strokes, Tail0(strokes)}
       /\ (Committed /\ last'.op = "redo") =>
            /\ last'.ret = "False"
            /\ LogAndTimerUnchanged]_vars
C3_Witness ==
    /\ Committed
    /\ last.pre.undo_stack # <<>>
    /\ last.pre.strokes # <<>>
    /\ undo_stack = <<>>

\* C4: undo returns True and moves exactly the last committed stroke onto
\* the end of the undo stack when the log is non-empty; on an empty log it
\* returns False and leaves the log, the undo stack, the display and the
\* pending timer as they were.
C4_Undo ==
    [][last'.op = "undo" =>
        IF strokes # <<>>
        THEN /\ last'.ret = "True"
             /\ strokes' = Front(strokes)
             /\ undo_stack' = Append(undo_stack, Last(strokes))
        ELSE /\ last'.ret = "False"
             /\ LogAndTimerUnchanged]_vars
C4_Witness ==
    /\ last.op = "undo"
    /\ last.ret = "True"
    /\ Len(last.pre.strokes) >= 2
    /\ Len(undo_stack) >= 2

\* C5: redo returns True and moves exactly the last undone stroke onto the
\* end of the committed log when the undo stack is non-empty; on an empty
\* undo stack it returns False and changes nothing.
C5_Redo ==
    [][last'.op = "redo" =>
        IF undo_stack # <<>>
        THEN /\ last'.ret = "True"
             /\ strokes' = Append(strokes, Last(undo_stack))
             /\ undo_stack' = Front(undo_stack)
        ELSE /\ last'.ret = "False"
             /\ LogAndTimerUnchanged]_vars
C5_Witness ==
    /\ last.op = "redo"
    /\ last.ret = "True"
    /\ Len(strokes) >= 2
    /\ undo_stack # <<>>

\* C6: a redo right after a successful undo restores the committed log and
\* the undo stack exactly as they were before the undo, timestamps included.
C6_UndoRedo ==
    (last.op = "redo" /\ last.chained)
        => /\ last.ret = "True"
           /\ strokes = last.pre.strokes
           /\ undo_stack = last.pre.undo_stack
C6_Witness ==
    /\ last.op = "redo"
    /\ last.chained
    /\ Len(strokes) >= 2
    /\ strokes[1].time # strokes[2].time

\* C7: a commit that evicts removes the stroke at index 0 and no other, keeps
\* the rest in order, and leaves the undo stack as any commit leaves it.
C7_EvictsOldest ==
    [][(CommitStep /\ Len(strokes) >= MAX_UNDO_STACK) =>
        /\ strokes' = Append(Tail0(strokes),
                             Stroke(current_stroke_points, current_color,
                                    line_width, current_instruction))
        /\ undo_stack' = <<>>]_vars
C7_Witness ==
    /\ Committed
    /\ Len(last.pre.strokes) = MAX_UNDO_STACK
    /\ Len(strokes) = MAX_UNDO_STACK
    /\ strokes[1] = last.pre.strokes[2]

\* C8: the export holds one {points, color, width, time} entry for every
\* committed stroke, in order, the background key and the time of export;
\* it holds nothing of the undo stack, and exporting changes no state.
StrokeKeys == {"points", "color", "width", "time"}
C8_ExportShape ==
    LET e == export_strokes_value
    IN  /\ DOMAIN e = {"strokes", "background", "timestamp"}
        /\ Len(e.strokes) = Len(strokes)
        /\ \A i \in 1..Len(strokes) :
              /\ DOMAIN e.strokes[i] = StrokeKeys
              /\ \A k \in StrokeKeys : e.strokes[i][k] = strokes[i][k]
        /\ e.background = background_key
        /\ e.timestamp = now
C8_Export ==
    /\ []C8_ExportShape
    /\ [][export_strokes =>
            UNCHANGED <<log, session, last_draw_time, timer, unicorn_callback,
                        tool, background, canvas, touches, now, next_id,
                        rewards>>]_vars
C8_Witness ==
    /\ Len(export_strokes_value.strokes) >= 2
    /\ undo_stack # <<>>
    /\ export_strokes_value.strokes[1] # export_strokes_value.strokes[2]

\* C9: importing the canvas's own export gives a committed log of the same
\* length and order with the same points, colour and width in each entry,
\* every timestamp set to the time of import, an empty undo stack and the
\* same background key.
C9_RoundTrip ==
    [][import_strokes(export_strokes_value) =>
        /\ Len(strokes') = Len(strokes)
        /\ \A i \in 1..Len(strokes) :
              /\ strokes'[i].points = strokes[i].points
              /\ strokes'[i].color = strokes[i].color
              /\ strokes'[i].width = strokes[i].width
              /\ strokes'[i].time = now'
        /\ undo_stack' = <<>>
        /\ background_key' = background_key]_vars
C9_Witness ==
    /\ last.op = "import_strokes"
    /\ last.branch = "own export"
    /\ Len(strokes) >= 2
    /\ strokes[1].width # strokes[2].width
    /\ now > 0
    /\ background_key # DEFAULT_BACKGROUND

\* The log after clear() and a commit of each entry of a snapshot, with
\* instruction groups from id on
RECURSIVE Recommit(_, _, _, _)
Recommit(entries, i, id, committed) ==
    IF i > Len(entries) THEN committed
    ELSE Recommit(entries, i + 1, id + 1,
                  Commit(committed, <<>>,
                         Stroke(entries[i].points, entries[i].color,
                                entries[i].width, id))[1])
Dicts(seq) == [i \in 1..Len(seq) |-> to_dict(seq[i])]
WellFormed(data) ==
    \A i \in 1..Len(StrokeEntries(data)) : HasStrokeKeys(StrokeEntries(data)[i])

\* C10: importing a snapshot leaves the log as clear() followed by a commit
\* of each of its strokes would (append, clear the undo stack, evict the
\* oldest over MAX_UNDO_STACK), every resulting stroke holding a fresh
\* instruction group that is on the display.
C10_ImportIsRecommit ==
    [][\A d \in SnapshotInputs :
        (WellFormed(d) /\ import_strokes(d)) =>
            /\ Dicts(strokes') = Dicts(Recommit(StrokeEntries(d), 1, next_id, <<>>))
            /\ undo_stack' = <<>>
            /\ Instructions(strokes') \subseteq canvas'
            /\ \A i \in 1..Len(strokes') : strokes'[i].instruction >= next_id
            /\ Cardinality(Instructions(strokes')) = Len(strokes')]_vars

(***************************************************************************)
(* Properties of import, the idle check and clear                          *)
(***************************************************************************)
FireStep == last'.op = "_check_for_number"
Fired == last.op = "_check_for_number"
SameContent(stroke, entry) ==
    /\ stroke.points = entry.points
    /\ stroke.color = entry.color
    /\ stroke.width = entry.width

\* C11: an import of a snapshot with a malformed entry skips that entry only:
\* it does not abort, and every well-formed entry, before and after, is
\* committed in snapshot order.
C11_SkipsMalformed ==
    [][\A d \in SnapshotInputs :
        (~WellFormed(d) /\ import_strokes(d)) =>
            LET kept == SelectSeq(StrokeEntries(d), HasStrokeKeys)
            IN  /\ last'.ret = "None"
                /\ Len(strokes') = Len(kept)
                /\ \A i \in 1..Len(kept) : SameContent(strokes'[i], kept[i])]_vars

\* C12: an import of a snapshot without a 'background' key imports the
\* strokes and leaves the background key and colour as they were.
C12_ImportWithoutBackground ==
    [][\A d \in SnapshotInputs :
        ("background" \notin DOMAIN d /\ import_strokes(d)) =>
            /\ last'.ret = "None"
            /\ background_key' = background_key
            /\ background_color' = background_color
            /\ Len(strokes') = Len(StrokeEntries(d))
            /\ \A i \in 1..Len(strokes') :
                  SameContent(strokes'[i], StrokeEntries(d)[i])]_vars
C12_Witness ==
    /\ last.op = "import_strokes"
    /\ last.branch = "no background"
    /\ last.ret = "None"
    /\ background_key # DEFAULT_BACKGROUND
    /\ strokes # <<>>

\* C13: at most one idle-check timer is pending in any reachable state (an
\* arming cancels the pending one first), and the stored handle is None
\* whenever no timer is pending.
C13_OneTimer ==
    /\ Cardinality(clock) <= 1
    /\ clock = {} => unicorn_check_event = NoEvent
C13_Witness ==
    /\ Committed
    /\ last.cancelled
    /\ Cardinality(clock) = 1
    /\ unicorn_check_event.id = Last(strokes).instruction

\* C16: a fire of the idle timer calls the reward callback only if
\* now - last_draw_time >= UNICORN_IDLE_THRESHOLD; a fire that fails the test
\* does nothing and arms no timer, so nothing is pending until a commit arms
\* again; no arming leads to more than one call.
C16_IdleCheck ==
    [][/\ rewards' # rewards =>
            /\ FireStep
            /\ now - last_draw_time >= UNICORN_IDLE_THRESHOLD
            /\ Len(rewards') = Len(rewards) + 1
            /\ \A i \in 1..Len(rewards) :
                  /\ rewards'[i] = rewards[i]
                  /\ rewards[i].event # Last(rewards').event
       /\ (FireStep /\ now - last_draw_time < UNICORN_IDLE_THRESHOLD) =>
            /\ rewards' = rewards
            /\ clock' = {}
            /\ unicorn_check_event' = NoEvent
       /\ FireStep => clock' \subseteq clock
       /\ ~(clock' \subseteq clock) => CommitStep]_vars
C16_Witness ==
    /\ Fired
    /\ last.branch = "not idle"
    /\ unicorn_callback
    /\ Recent # <<>>
    /\ rewards = <<>>

\* C20: right after clear_canvas, whatever the state it ran in, the log and
\* the undo stack are empty, no instruction group is attached to the display
\* and has_content() is False.
C20_Cleared ==
    last.op = "clear_canvas" =>
        /\ strokes = <<>>
        /\ undo_stack = <<>>
        /\ canvas = {}
        /\ ~has_content
C20_Witness ==
    /\ last.op = "clear_canvas"
    /\ last.branch = "with undone"
    /\ current_instruction # None

(***************************************************************************)
(* Properties of the idle timer                                            *)
(***************************************************************************)
\* The event e was armed by the commit of the newest stroke of the log and
\* no point has been sampled since that commit
ArmedByNewest(e) ==
    /\ unicorn_callback
    /\ strokes # <<>>
    /\ e.id = Last(strokes).instruction
    /\ e.due = Last(strokes).time + UNICORN_CHECK_DELAY
    /\ last_draw_time <= Last(strokes).time
InSeq(x, seq) == \E i \in 1..Len(seq) : seq[i] = x
\* The fire of e makes one call, not before the event is due, with strokes
\* that include the newest stroke of the log
OneCallWithNewest(e) ==
    /\ Len(rewards') = Len(rewards) + 1
    /\ SubSeq(rewards', 1, Len(rewards)) = rewards
    /\ Last(rewards').at >= Last(strokes).time + UNICORN_CHECK_DELAY
    /\ Last(rewards').strokes # <<>>
    /\ InSeq(Last(strokes), Last(rewards').strokes)
    /\ clock' = {}

TwoCommitsApart ==
    /\ Len(strokes) >= 2
    /\ Last(strokes).time - strokes[Len(strokes) - 1].time < UNICORN_CHECK_DELAY
\* A commit with a timer pending cancels it and leaves its own timer as the
\* only one pending; the event that fires is the one armed last
CancelsOnRearm ==
    /\ (CommitStep /\ unicorn_check_event \in clock) =>
            /\ unicorn_check_event \notin clock'
            /\ clock' = {unicorn_check_event'}
            /\ unicorn_check_event'.id = current_instruction
    /\ FireStep => (clock = {unicorn_check_event} /\ clock' = {})
\* The fire of e makes one call, the only one that follows the two commits
OneCallForTwo(e) ==
    /\ Len(rewards') = Len(rewards) + 1
    /\ SubSeq(rewards', 1, Len(rewards)) = rewards
    /\ Last(rewards').event = Last(strokes).instruction
    /\ \A i \in 1..Len(rewards') :
          rewards'[i].event # strokes[Len(strokes) - 1].instruction
    /\ clock' = {}

\* C15 as stated: two commits less than UNICORN_CHECK_DELAY apart with no
\* later activity lead to exactly one call of the callback; the timer armed
\* by the first commit is cancelled by the second and never fires.
C15_RearmCancels ==
    [][/\ CancelsOnRearm
       /\ \A e \in clock :
            (ArmedByNewest(e) /\ TwoCommitsApart /\ check_for_number(e))
                => OneCallForTwo(e)]_vars

\* C15, amended: the same, the one call being made provided the timer of the
\* second commit fires less than STROKE_RECENT_THRESHOLD after that commit.
C15_RearmCancelsInTime ==
    [][/\ CancelsOnRearm
       /\ \A e \in clock :
            (/\ ArmedByNewest(e) /\ TwoCommitsApart
             /\ now - Last(strokes).time < STROKE_RECENT_THRESHOLD
             /\ check_for_number(e)) => OneCallForTwo(e)]_vars
C15_Witness ==
    /\ Fired
    /\ last.branch = "callback"
    /\ TwoCommitsApart
    /\ Last(strokes).time > strokes[Len(strokes) - 1].time
    /\ Len(rewards) = 1
    /\ rewards[1].event = Last(strokes).instruction
    /\ Len(rewards[1].strokes) = 2

\* C17: the argument of every call of the callback is non-empty and is the
\* subsequence, in commit order, of the strokes committed at fire time that
\* were created less than STROKE_RECENT_THRESHOLD ago; it holds no stroke
\* of the undo stack and no stroke that left the log.
C17_RecentStrokes ==
    [][rewards' # rewards =>
        LET arg == Last(rewards').strokes
            idx == {i \in 1..Len(strokes) :
                        now - strokes[i].time < STROKE_RECENT_THRESHOLD}
            nth(i) == CHOOSE k \in idx : Cardinality({j \in idx : j <= k}) = i
        IN  /\ arg # <<>>
            /\ Len(arg) = Cardinality(idx)
            /\ \A i \in 1..Len(arg) : arg[i] = strokes[nth(i)]
            /\ \A i \in 1..Len(arg) : ~InSeq(arg[i], undo_stack)]_vars
C17_Witness ==
    /\ Fired
    /\ last.branch = "callback"
    /\ Len(Last(rewards).strokes) < Len(strokes)
    /\ InSeq(Last(strokes), Last(rewards).strokes)
    /\ ~InSeq(strokes[1], Last(rewards).strokes)

(***************************************************************************)
(* Properties of gestures                                                  *)
(***************************************************************************)
\* C18: a pointer-down of a second pointer during a gesture is rejected: it
\* is not handled by the canvas and leaves the live points and the live
\* preview of the gesture as they were, so the pointer-up of the first
\* pointer commits the points sampled from that pointer.
C18_SecondPointerRejected ==
    [][/\ \A p \in DownPoints :
            (touches[1].grab /\ current_instruction # None
             /\ on_touch_down(2, p)) =>
                /\ ~touches'[2].grab
                /\ touches'[1] = touches[1]
                /\ UNCHANGED <<current_stroke_points, current_instruction,
                               canvas>>
       /\ \A t \in Touches :
            (touches[t].grab /\ on_touch_up(t) /\ CommitStep) =>
                /\ Last(strokes').points = touches[t].line.points
                /\ Last(strokes').instruction = touches[t].line.instruction]_vars

\* C19: a gesture begun in eraser mode is never committed: its pointer-down,
\* its moves and its pointer-up leave the log and the undo stack as they
\* were and neither arm nor cancel the idle timer.
C19_EraserNeverCommits ==
    [][\A t \in Touches :
        /\ \A p \in DownPoints :
              (is_eraser /\ on_touch_down(t, p)) => UNCHANGED <<log, timer>>
        /\ \A p \in MovePoints :
              (touches[t].grab /\ touches[t].erasing /\ on_touch_move(t, p))
                  => UNCHANGED <<log, timer>>
        /\ (/\ touches[t].grab /\ touches[t].erasing
            /\ current_instruction = touches[t].line.instruction
            /\ on_touch_up(t)) => UNCHANGED <<log, timer>>]_vars

\* C21: the eraser flag, the colour and the width of a gesture are those in
\* force at its pointer-down, whatever tool control is used before its
\* pointer-up: the gesture is committed exactly if it was not begun in eraser
\* mode, and the committed stroke records the colour and the width of the
\* live preview.
C21_ToolFixedAtPointerDown ==
    [][\A t \in Touches :
        (/\ touches[t].grab
         /\ current_instruction = touches[t].line.instruction
         /\ current_stroke_points # <<>>
         /\ on_touch_up(t)) =>
            /\ CommitStep <=> ~touches[t].erasing
            /\ CommitStep =>
                  /\ Last(strokes').color = touches[t].line.color
                  /\ Last(strokes').width = touches[t].line.width]_vars

\* The region in which a pointer-down opens a session: inside the widget and
\* below the strip reserved for the control bar
Drawable(p) == collide_point(p) /\ ~InControlBar(p)
\* What the canvas holds, apart from the observer's records
canvas_state == <<log, session, last_draw_time, timer, unicorn_callback, tool,
                  background, canvas, touches, now, next_id, rewards>>

\* C22: a move of a grabbed pointer to a point of the drawable region
\* appends that one point to the live points and refreshes last_draw_time; a
\* move of a grabbed pointer to a point outside the region is accepted and
\* appends nothing; a move of a pointer that is not grabbed changes nothing.
\* So every point of a committed stroke lies in the drawable region.
C22_MoveSamplesInRegion ==
    [][/\ \A t \in Touches, p \in PointerMovePoints :
            on_touch_move(t, p) =>
                IF ~touches[t].grab THEN UNCHANGED canvas_state
                ELSE IF Drawable(p)
                THEN /\ current_stroke_points' = Append(current_stroke_points, p)
                     /\ last_draw_time' = now
                ELSE UNCHANGED <<current_stroke_points, touches>>
       /\ \A i \in 1..Len(strokes') : \A j \in 1..Len(strokes'[i].points) :
            Drawable(strokes'[i].points[j])]_vars

\* C23: a pointer-up of a grabbed pointer ends the gesture: after it the
\* live points are empty, there is no live instruction and the pointer is
\* released, whether the gesture was committed, was made in eraser mode or
\* had no points; a pointer-up of a pointer that is not grabbed changes
\* nothing.
C23_PointerUpEndsGesture ==
    [][\A t \in Touches :
        on_touch_up(t) =>
            IF touches[t].grab
            THEN /\ current_stroke_points' = <<>>
                 /\ current_instruction' = None
                 /\ ~touches'[t].grab
                 /\ last'.op = "on_touch_up"
                 /\ last'.ret = "True"
            ELSE UNCHANGED canvas_state]_vars
C23_Witness ==
    /\ last.op = "on_touch_up"
    /\ last.branch = "discard"
    /\ is_eraser
    /\ last.pre.strokes = strokes
    /\ strokes # <<>>
    /\ current_stroke_points = <<>>
    /\ current_instruction = None

\* C24: every stroke of the log and of the undo stack has at least one
\* point, in every state reached by gestures, undo, redo, clear and import.
C24_NoEmptyStroke ==
    \A i \in 1..Len(strokes \o undo_stack) :
        (strokes \o undo_stack)[i].points # <<>>

(***************************************************************************)
(* Properties of the strokes and of the display                            *)
(***************************************************************************)
\* C25: a stroke of the log or of the undo stack keeps its points, colour,
\* width and creation time under every later operation, for as long as it
\* is in the log or in the undo stack.
C25_StrokesImmutable ==
    [][\A i \in 1..Len(strokes \o undo_stack) :
        \A j \in 1..Len(strokes' \o undo_stack') :
            LET before == (strokes \o undo_stack)[i]
                after == (strokes' \o undo_stack')[j]
            IN  before.instruction = after.instruction =>
                    /\ after.points = before.points
                    /\ after.color = before.color
                    /\ after.width = before.width
                    /\ after.time = before.time]_vars
C25_Witness ==
    /\ last.op = "redo"
    /\ last.ret = "True"
    /\ Len(strokes) = MAX_UNDO_STACK
    /\ Last(strokes).color # current_color
    /\ Last(strokes).time < now

\* C26: a commit that evicts the oldest stroke of a full log detaches the
\* instruction group of that stroke from the display.
C26_EvictedDetached ==
    [][(CommitStep /\ Len(strokes) = MAX_UNDO_STACK) =>
            strokes[1].instruction \notin canvas']_vars

\* C27: in every reachable state the instruction group of every stroke of
\* the log is attached to the display and that of no stroke of the undo
\* stack is, also when undo, redo or clear_canvas run during a gesture.
C27_AttachedIffCommitted ==
    /\ \A i \in 1..Len(strokes) : strokes[i].instruction \in canvas
    /\ \A i \in 1..Len(undo_stack) : undo_stack[i].instruction \notin canvas

\* C28: in every state reached by gestures, undo, redo and clear_canvas,
\* without import, the log and the undo stack together hold at most
\* MAX_UNDO_STACK strokes; so redo never takes the log over the capacity.
C28_LogPlusUndoneBounded ==
    Len(strokes) + Len(undo_stack) <= MAX_UNDO_STACK
C28_Witness ==
    /\ last.op = "redo"
    /\ last.ret = "True"
    /\ Len(strokes) = MAX_UNDO_STACK
    /\ undo_stack = <<>>

(***************************************************************************)
(* Properties of the reward callback                                       *)
(***************************************************************************)
\* C29: the reward callback is never called while a pointer is held by the
\* canvas, that is between a pointer-down the canvas consumed and its
\* pointer-up.
C29_NoCallDuringGesture ==
    [][rewards' # rewards => \A t \in Touches : ~touches[t].grab]_vars

\* C30: clear_canvas and import_strokes leave no timer pending and no stored
\* handle; a call of the callback is made only by the fire of a pending
\* timer, and a timer gets pending only by the commit of a stroke.  So after
\* a clear the callback is not called before a new stroke is committed.
C30_ClearCancelsTimer ==
    [][/\ last'.op \in {"clear_canvas", "import_strokes"} =>
            /\ clock' = {}
            /\ unicorn_check_event' = NoEvent
       /\ rewards' # rewards =>
            /\ FireStep
            /\ \E e \in clock : Last(rewards').event = e.id
       /\ \A e \in clock' \ clock :
            /\ CommitStep
            /\ e.id = current_instruction]_vars
C30_Witness ==
    /\ last.op = "clear_canvas"
    /\ last.cancelled
    /\ unicorn_callback
    /\ now < UNICORN_CHECK_DELAY
    /\ clock = {}
    /\ rewards = <<>>
====
